---- MODULE Spec2Model ----
(***************************************************************************)
(* Edit-session model of the Parquet viewer (src/main.py): the DataFrame   *)
(* being edited, the QTableWidget that displays it, the undo/redo command  *)
(* stack, the dirty flag, filters, sort states and the file on disk.       *)
(*                                                                         *)
(* Texts are sequences of one-character strings, so that strip, replace,   *)
(* lower, parsing, thousands formatting and substring search are computed  *)
(* character by character as the Python code computes them.  Row and       *)
(* column indices are 0-based as in the code.  The magnifier glyph that    *)
(* update_header_style appends to a filtered header is written "~".        *)
(*                                                                         *)
(* Abstractions: numeric cells are non-negative integers (float64 and      *)
(* datetime64 columns, and pandas' silent int64 -> float64 upcast when a   *)
(* None is stored, are not represented); an integer read back from the     *)
(* DataFrame is a numpy integer (str() formatting), an integer produced by *)
(* int(float(..)) is a Python int (thousands formatting).  A string        *)
(* assigned into a numeric column is stored (pandas 2 upcasts the column   *)
(* to object).  Of the texts that float() accepts beyond digits only "inf" *)
(* is represented.  An exception that leaves a Qt slot ends the process    *)
(* (PyQt5 >= 5.5): crashed.                                                *)
(*                                                                         *)
(* Rows of the view move only in sortItems: the re-sorting that Qt does on *)
(* its own while sorting is enabled is not represented.                    *)
(*                                                                         *)
(* QTableWidgetItem.setText, setFlags and QTableWidget.setItem emit        *)
(* itemChanged synchronously; a Python bool is an int for isinstance and   *)
(* is shown as 1 or 0 by the thousands format.                             *)
(*                                                                         *)
(* The operations are divided over several specifications (Spec,           *)
(* SpecEdits, SpecRows, SpecColumns, SpecFile, SpecSession, SpecView,      *)
(* SpecTypes), each small enough to be explored exhaustively; every one    *)
(* starts from the window after its first Open.                            *)
(***************************************************************************)
EXTENDS Integers, Sequences, FiniteSets, TLC

(***************************************************************************)
(* Bounds of the model.                                                    *)
(***************************************************************************)
MaxRows == 2
MaxCols == 2
MaxStack == 2
MaxFuel == 3

(***************************************************************************)
(* Characters and texts.                                                   *)
(***************************************************************************)
AlphabetSeq ==
  <<" ", ",", "0", "1", "2", "3", "4", "5", "6", "7", "8", "9",
    "B", "F", "N", "T", "Y", "[", "]", "a", "b", "d", "e", "f", "i", "l", "m",
    "n", "o", "r", "s", "u", "x", "y",
    "~">>

CharCode(c) == CHOOSE i \in 1..Len(AlphabetSeq) : AlphabetSeq[i] = c

DigitSeq == <<"0", "1", "2", "3", "4", "5", "6", "7", "8", "9">>

IsDigit(c) == \E i \in 1..10 : DigitSeq[i] = c

DigitVal(c) == (CHOOSE i \in 1..10 : DigitSeq[i] = c) - 1

LowerChar(c) ==
  CASE c = "B" -> "b"
    [] c = "F" -> "f"
    [] c = "N" -> "n"
    [] c = "T" -> "t"
    [] c = "Y" -> "y"
    [] OTHER -> c

Lower(t) == [i \in 1..Len(t) |-> LowerChar(t[i])]

RECURSIVE Strip(_)
Strip(t) ==
  IF t = <<>> THEN <<>>
  ELSE IF Head(t) = " " THEN Strip(Tail(t))
  ELSE IF t[Len(t)] = " " THEN Strip(SubSeq(t, 1, Len(t) - 1))
  ELSE t

RemoveCommas(t) == SelectSeq(t, LAMBDA c : c # ",")

EndsWith(t, suffix) ==
  /\ Len(t) >= Len(suffix)
  /\ SubSeq(t, Len(t) - Len(suffix) + 1, Len(t)) = suffix

Contains(needle, hay) ==
  \E i \in 0..(Len(hay) - Len(needle)) :
     SubSeq(hay, i + 1, i + Len(needle)) = needle

RECURSIVE TextLess(_, _)
TextLess(a, b) ==
  IF b = <<>> THEN FALSE
  ELSE IF a = <<>> THEN TRUE
  ELSE IF Head(a) = Head(b) THEN TextLess(Tail(a), Tail(b))
  ELSE CharCode(Head(a)) < CharCode(Head(b))

(***************************************************************************)
(* Cell values: None/NaN, integers, booleans, strings and, in files with a *)
(* list column, arrays.                                                    *)
(***************************************************************************)
Null == [t |-> "null", n |-> 0, s |-> <<>>]
IntV(k) == [t |-> "int", n |-> k, s |-> <<>>]
BoolV(b) == [t |-> "bool", n |-> IF b THEN 1 ELSE 0, s |-> <<>>]
StrV(x) == [t |-> "str", n |-> 0, s |-> x]
ListV(x) == [t |-> "list", n |-> 0, s |-> x]  \* x: the array's str()

IsNa(v) == v.t = "null"

RECURSIVE PyIntStr(_)
PyIntStr(k) ==
  IF k < 10 THEN <<DigitSeq[k + 1]>>
  ELSE PyIntStr(k \div 10) \o <<DigitSeq[(k % 10) + 1]>>

Pad3(k) ==
  <<DigitSeq[(k \div 100) + 1], DigitSeq[((k \div 10) % 10) + 1],
    DigitSeq[(k % 10) + 1]>>

RECURSIVE PyFormatComma(_)
PyFormatComma(k) ==
  IF k < 1000 THEN PyIntStr(k)
  ELSE PyFormatComma(k \div 1000) \o <<",">> \o Pad3(k % 1000)

PyStr(v) ==
  CASE v.t = "null" -> <<"n", "a", "n">>
    [] v.t = "int" -> PyIntStr(v.n)
    [] v.t = "bool" -> IF v.n = 1 THEN <<"T", "r", "u", "e">>
                       ELSE <<"F", "a", "l", "s", "e">>
    [] OTHER -> v.s

PyEq(a, b) ==
  CASE a.t = "null" \/ b.t = "null" -> FALSE
    [] a.t = "str" \/ b.t = "str" -> a.t = b.t /\ a.s = b.s
    [] OTHER -> a.n = b.n

RECURSIVE DigitsToNat(_)
DigitsToNat(t) ==
  IF t = <<>> THEN 0
  ELSE 10 * DigitsToNat(SubSeq(t, 1, Len(t) - 1)) + DigitVal(t[Len(t)])

PyFloatOk(t) == t # <<>> /\ \A i \in 1..Len(t) : IsDigit(t[i])

\* float() also accepts the spelling of infinity, which int() then refuses
\* with OverflowError, an exception that no handler of the program catches.
InfText == <<"i", "n", "f">>

PyFloatInf(t) == Lower(t) = InfText

TrueWords == {<<"t", "r", "u", "e">>, <<"1">>, <<"y", "e", "s">>}

\* A coercion whose Boolean branch compares without lower-casing.
ConvertValueCaseSensitive(value, dtype) ==
  IF value = <<>> THEN [ok |-> TRUE, fatal |-> FALSE, v |-> Null]
  ELSE IF dtype = "int64" THEN
    LET clean_value == Strip(RemoveCommas(value)) IN
      IF PyFloatOk(clean_value)
      THEN [ok |-> TRUE, fatal |-> FALSE, v |-> IntV(DigitsToNat(clean_value))]
      ELSE [ok |-> FALSE, fatal |-> PyFloatInf(clean_value), v |-> Null]
  ELSE IF dtype = "bool"
    THEN [ok |-> TRUE, fatal |-> FALSE, v |-> BoolV(value \in TrueWords)]
  ELSE [ok |-> TRUE, fatal |-> FALSE, v |-> StrV(value)]

\* ok: a value results; fatal: the exception raised is not a ValueError or
\* TypeError.
ConvertValue(value, dtype) ==
  IF value = <<>> THEN [ok |-> TRUE, fatal |-> FALSE, v |-> Null]
  ELSE IF dtype = "int64" THEN
    LET clean_value == Strip(RemoveCommas(value)) IN
      IF PyFloatOk(clean_value)
      THEN [ok |-> TRUE, fatal |-> FALSE, v |-> IntV(DigitsToNat(clean_value))]
      ELSE [ok |-> FALSE, fatal |-> PyFloatInf(clean_value), v |-> Null]
  ELSE IF dtype = "bool"
    THEN [ok |-> TRUE, fatal |-> FALSE, v |-> BoolV(Lower(value) \in TrueWords)]
  ELSE [ok |-> TRUE, fatal |-> FALSE, v |-> StrV(value)]

DisplayConverted(v) ==
  IF IsNa(v) THEN <<>>
  ELSE IF v.t \in {"int", "bool"} THEN PyFormatComma(v.n)
  ELSE PyStr(v)

DisplayStored(v) == IF IsNa(v) THEN <<>> ELSE PyStr(v)

(***************************************************************************)
(* Session state.  Handlers are operators from a session record to a       *)
(* session record, so that a handler can call another one synchronously    *)
(* (Qt delivers itemChanged inside setText/setItem).                       *)
(***************************************************************************)
VARIABLES has_df, df_columns, df, column_types, header, table, hidden,
          totals, filters, column_sort_states, current_file, disk,
          modified, edit_mode, modified_cells, undo_stack, redo_stack,
          clipboard_data, crashed,
          edited_df  \* history: the DataFrame as the last committed edit left it

vars == <<has_df, df_columns, df, column_types, header, table, hidden,
          totals, filters, column_sort_states, current_file, disk,
          modified, edit_mode, modified_cells, undo_stack, redo_stack,
          clipboard_data, crashed, edited_df>>

St ==
  [has_df |-> has_df, df_columns |-> df_columns, df |-> df,
   column_types |-> column_types, header |-> header, table |-> table,
   hidden |-> hidden, totals |-> totals, filters |-> filters,
   column_sort_states |-> column_sort_states,
   current_file |-> current_file, disk |-> disk, modified |-> modified,
   edit_mode |-> edit_mode, modified_cells |-> modified_cells,
   undo_stack |-> undo_stack, redo_stack |-> redo_stack,
   clipboard_data |-> clipboard_data, crashed |-> crashed]

Becomes(s) ==
  /\ has_df' = s.has_df
  /\ df_columns' = s.df_columns
  /\ df' = s.df
  /\ column_types' = s.column_types
  /\ header' = s.header
  /\ table' = s.table
  /\ hidden' = s.hidden
  /\ totals' = s.totals
  /\ filters' = s.filters
  /\ column_sort_states' = s.column_sort_states
  /\ current_file' = s.current_file
  /\ disk' = s.disk
  /\ modified' = s.modified
  /\ edit_mode' = s.edit_mode
  /\ modified_cells' = s.modified_cells
  /\ undo_stack' = s.undo_stack
  /\ redo_stack' = s.redo_stack
  /\ clipboard_data' = s.clipboard_data
  /\ crashed' = s.crashed

NoFile == "<none>"
NoClipboard == [set |-> FALSE, data |-> <<>>]
NoDtype == "<none>"

RowCount(s) == Len(s.table)
ColumnCount(s) == Len(s.header)
DfRows(s) == Len(s.df)
DfCols(s) == Len(s.df_columns)

\* An unhandled Python exception in a slot: PyQt5 calls qFatal() and the
\* process aborts; the handler's partial effects die with the process.
Abort(s0) == [s0 EXCEPT !.crashed = TRUE]

InDf(s, row, col) == row < DfRows(s) /\ col < DfCols(s)

Iloc(s, row, col) == s.df[row + 1][col + 1]

SetIloc(s, row, col, v) == [s EXCEPT !.df[row + 1][col + 1] = v]

ColumnTypesGet(s, col_name) ==
  IF col_name \in DOMAIN s.column_types THEN s.column_types[col_name]
  ELSE NoDtype

(***************************************************************************)
(* CommandStack (a command is its list of changes).                        *)
(***************************************************************************)
Change(row, col, old_value, new_value) ==
  [row |-> row, col |-> col, old |-> old_value, new |-> new_value]

Push(s, command) ==
  [s EXCEPT !.undo_stack = Append(@, command), !.redo_stack = <<>>]

CanUndo(s) == Len(s.undo_stack) > 0

CanRedo(s) == Len(s.redo_stack) > 0

Clear(s) == [s EXCEPT !.undo_stack = <<>>, !.redo_stack = <<>>]

(***************************************************************************)
(* update_column_totals: the totals strip under the table.                 *)
(***************************************************************************)
TotalLabel == <<"T", "o", "t", "a", "l">>

IsInfText(text) == PyFloatInf(Strip(RemoveCommas(text)))

IsNumericText(text) == PyFloatOk(Strip(RemoveCommas(text))) \/ IsInfText(text)

NumericOf(text) == DigitsToNat(Strip(RemoveCommas(text)))

RECURSIVE SumColumn(_, _, _)
SumColumn(tbl, col, upto) ==
  IF upto = 0 THEN 0
  ELSE SumColumn(tbl, col, upto - 1)
       + (IF IsNumericText(tbl[upto][col + 1]) /\ ~IsInfText(tbl[upto][col + 1])
          THEN NumericOf(tbl[upto][col + 1]) ELSE 0)

ColumnTotalText(s, col) ==
  IF \E r \in 1..RowCount(s) : IsInfText(s.table[r][col + 1]) THEN InfText
  ELSE IF \E r \in 1..RowCount(s) : IsNumericText(s.table[r][col + 1])
  THEN PyFormatComma(SumColumn(s.table, col, RowCount(s))) \o <<".", "0", "0">>
  ELSE <<>>

UpdateColumnTotals(s) ==
  IF RowCount(s) = 0 THEN s
  ELSE [s EXCEPT !.totals =
          [c \in 1..ColumnCount(s) |->
             IF c = 1 THEN TotalLabel ELSE ColumnTotalText(s, c - 1)]]

(***************************************************************************)
(* on_cell_changed, and QTableWidgetItem.setText which emits itemChanged   *)
(* synchronously when the text really changes.  fuel counts the nesting    *)
(* depth left before Python's RecursionError.                              *)
(***************************************************************************)
RECURSIVE OnCellChanged(_, _, _, _)
RECURSIVE SetText(_, _, _, _, _)

SetText(s, row, col, text, fuel) ==
  IF s.crashed THEN s
  ELSE IF ~(row < RowCount(s) /\ col < ColumnCount(s)) THEN s
  ELSE IF s.table[row + 1][col + 1] = text THEN s
  ELSE OnCellChanged([s EXCEPT !.table[row + 1][col + 1] = text], row, col, fuel)

OnCellChanged(s, row, col, fuel) ==
  IF ~s.edit_mode THEN s
  ELSE IF fuel = 0 THEN Abort(s)
  ELSE IF ~InDf(s, row, col) THEN Abort(s)
  ELSE
    LET new_value == Strip(s.table[row + 1][col + 1])
        col_name == s.header[col + 1]
        dtype == ColumnTypesGet(s, col_name)
        old_value == Iloc(s, row, col)
    IN
      IF Strip(PyStr(old_value)) = new_value THEN s
      ELSE IF dtype # NoDtype THEN
        LET conv == ConvertValue(new_value, dtype) IN
          IF conv.fatal THEN Abort(s)
          ELSE IF ~conv.ok
            THEN SetText(s, row, col, DisplayStored(old_value), fuel - 1)
          ELSE IF IsNa(conv.v) /\ IsNa(old_value) THEN s
          ELSE IF PyEq(conv.v, old_value) THEN s
          ELSE
            LET s1 == Push(s, <<Change(row, col, old_value, conv.v)>>)
                s2 == SetIloc(s1, row, col, conv.v)
                s3 == SetText(s2, row, col, DisplayConverted(conv.v), fuel - 1)
                s4 == [s3 EXCEPT !.modified = TRUE,
                                 !.modified_cells = @ \cup {<<row, col>>}]
            IN UpdateColumnTotals(s4)
      ELSE
        LET s1 == Push(s, <<Change(row, col, old_value, StrV(new_value))>>)
            s2 == SetIloc(s1, row, col, StrV(new_value))
            s3 == [s2 EXCEPT !.modified = TRUE,
                             !.modified_cells = @ \cup {<<row, col>>}]
        IN UpdateColumnTotals(s3)

(***************************************************************************)
(* EditCommand.undo / EditCommand.redo and the stack operations.           *)
(***************************************************************************)
RECURSIVE EditCommandUndo(_, _, _)
EditCommandUndo(s, changes, i) ==
  IF i > Len(changes) \/ s.crashed THEN s
  ELSE
    LET ch == changes[i] IN
      IF ~InDf(s, ch.row, ch.col) THEN Abort(s)
      ELSE
        LET s1 == SetIloc(s, ch.row, ch.col, ch.old)
            s2 == SetText(s1, ch.row, ch.col, DisplayStored(ch.old), MaxFuel)
        IN EditCommandUndo(s2, changes, i + 1)

RECURSIVE EditCommandRedo(_, _, _)
EditCommandRedo(s, changes, i) ==
  IF i > Len(changes) \/ s.crashed THEN s
  ELSE
    LET ch == changes[i] IN
      IF ~InDf(s, ch.row, ch.col) THEN Abort(s)
      ELSE
        LET s1 == SetIloc(s, ch.row, ch.col, ch.new)
            s2 == SetText(s1, ch.row, ch.col, DisplayConverted(ch.new), MaxFuel)
        IN EditCommandRedo(s2, changes, i + 1)

CommandStackUndo(s) ==
  LET command == s.undo_stack[Len(s.undo_stack)]
      s1 == [s EXCEPT !.undo_stack = SubSeq(@, 1, Len(@) - 1)]
      s2 == EditCommandUndo(s1, command, 1)
  IN [s2 EXCEPT !.redo_stack = Append(@, command)]

CommandStackRedo(s) ==
  LET command == s.redo_stack[Len(s.redo_stack)]
      s1 == [s EXCEPT !.redo_stack = SubSeq(@, 1, Len(@) - 1)]
      s2 == EditCommandRedo(s1, command, 1)
  IN [s2 EXCEPT !.undo_stack = Append(@, command)]

CellsOf(command) == {<<command[i].row, command[i].col>> : i \in 1..Len(command)}

\* undo_edit leaving the dirty flag as it finds it.
UndoEditKeepsDirty(s) ==
  IF ~s.edit_mode THEN s
  ELSE IF ~CanUndo(s) THEN s
  ELSE
    LET s1 == CommandStackUndo(s)
        s2 == [s1 EXCEPT
                 !.modified_cells =
                    UNION {CellsOf(s1.undo_stack[k]) : k \in 1..Len(s1.undo_stack)}]
    IN UpdateColumnTotals(s2)

UndoEdit(s) ==
  IF ~s.edit_mode THEN s
  ELSE IF ~CanUndo(s) THEN s
  ELSE
    LET s1 == CommandStackUndo(s)
        s2 == [s1 EXCEPT
                 !.modified = Len(s1.undo_stack) > 0,
                 !.modified_cells =
                    UNION {CellsOf(s1.undo_stack[k]) : k \in 1..Len(s1.undo_stack)}]
    IN UpdateColumnTotals(s2)

\* redo_edit marking the session dirty before it asks the stack.
RedoEditMarksDirty(s) ==
  IF ~s.edit_mode THEN s
  ELSE IF ~CanRedo(s) THEN [s EXCEPT !.modified = TRUE]
  ELSE
    LET s1 == CommandStackRedo(s)
        s2 == [s1 EXCEPT
                 !.modified = TRUE,
                 !.modified_cells =
                    @ \cup CellsOf(s1.undo_stack[Len(s1.undo_stack)])]
    IN UpdateColumnTotals(s2)

RedoEdit(s) ==
  IF ~s.edit_mode THEN s
  ELSE IF ~CanRedo(s) THEN s
  ELSE
    LET s1 == CommandStackRedo(s)
        s2 == [s1 EXCEPT
                 !.modified = TRUE,
                 !.modified_cells =
                    @ \cup CellsOf(s1.undo_stack[Len(s1.undo_stack)])]
    IN UpdateColumnTotals(s2)

(***************************************************************************)
(* Filters, header decoration and sorting.                                 *)
(***************************************************************************)
FilterMark == <<" ", "~">>

RowShown(s, r) ==
  \A column \in DOMAIN s.filters :
     column < ColumnCount(s) =>
        Contains(Lower(s.filters[column]), Lower(s.table[r][column + 1]))

\* apply_filters dropping the rows that do not match from the DataFrame.
ApplyFiltersOnStore(s) ==
  UpdateColumnTotals(
    [s EXCEPT !.hidden = [r \in 1..RowCount(s) |-> ~RowShown(s, r)],
              !.df = SelectSeq(s.df, LAMBDA record :
                        \E r \in 1..RowCount(s) :
                           r <= Len(s.df) /\ s.df[r] = record /\ RowShown(s, r))])

ApplyFilters(s) ==
  UpdateColumnTotals(
    [s EXCEPT !.hidden = [r \in 1..RowCount(s) |-> ~RowShown(s, r)]])

UpdateHeaderStyle(s) ==
  [s EXCEPT !.header =
     [c \in 1..ColumnCount(s) |->
        LET text == s.header[c] IN
          IF (c - 1) \in DOMAIN s.filters
          THEN IF ~EndsWith(text, FilterMark) THEN text \o FilterMark ELSE text
          ELSE IF EndsWith(text, FilterMark)
               THEN SubSeq(text, 1, Len(text) - 2) ELSE text]]

DictSet(d, k, v) == [x \in (DOMAIN d) \cup {k} |-> IF x = k THEN v ELSE d[x]]

DictPop(d, k) == [x \in (DOMAIN d) \ {k} |-> d[x]]

EmptyDict == [x \in {} |-> 0]

ShowFilterDialog(s, column, filter_text) ==
  LET s1 == IF filter_text # <<>>
            THEN [s EXCEPT !.filters = DictSet(@, column, filter_text)]
            ELSE [s EXCEPT !.filters = DictPop(@, column)]
  IN UpdateHeaderStyle(ApplyFilters(s1))

ClearFilter(s, column) ==
  UpdateHeaderStyle(ApplyFilters([s EXCEPT !.filters = DictPop(@, column)]))

ClearAllFilters(s) ==
  UpdateColumnTotals(
    UpdateHeaderStyle(ApplyFilters([s EXCEPT !.filters = EmptyDict])))

\* QTableWidget.sortItems: a stable sort of the view rows on the text of one
\* column (std::stable_sort in QTableModel::sort); the row's hidden flag
\* travels with the row.
SortBefore(a, b, ascending) == IF ascending THEN TextLess(a, b) ELSE TextLess(b, a)

RECURSIVE SortPerm(_, _, _, _)
SortPerm(tbl, col, ascending, upto) ==
  IF upto = 0 THEN <<>>
  ELSE
    LET perm == SortPerm(tbl, col, ascending, upto - 1)
        pos == Cardinality({i \in 1..Len(perm) :
                 ~SortBefore(tbl[upto][col + 1], tbl[perm[i]][col + 1], ascending)})
    IN SubSeq(perm, 1, pos) \o <<upto>> \o SubSeq(perm, pos + 1, Len(perm))

SortItems(s, column, ascending) ==
  IF column >= ColumnCount(s) THEN s
  ELSE
    LET perm == SortPerm(s.table, column, ascending, RowCount(s)) IN
      [s EXCEPT !.table = [r \in 1..RowCount(s) |-> s.table[perm[r]]],
                !.hidden = [r \in 1..RowCount(s) |-> s.hidden[perm[r]]]]

ToggleColumnSort(s, column) ==
  LET ascending == IF column \in DOMAIN s.column_sort_states
                   THEN ~s.column_sort_states[column] ELSE TRUE
      s1 == [s EXCEPT !.column_sort_states = DictSet(@, column, ascending)]
  IN SortItems(s1, column, ascending)

(***************************************************************************)
(* Selections: one rectangle of view cells, listed row by row.             *)
(***************************************************************************)
RECURSIVE Flatten(_)
Flatten(ss) == IF ss = <<>> THEN <<>> ELSE Head(ss) \o Flatten(Tail(ss))

SelectedCells(sel) ==
  Flatten([i \in 1..(sel.bottom - sel.top + 1) |->
             [j \in 1..(sel.right - sel.left + 1) |->
                [row |-> sel.top + i - 1, col |-> sel.left + j - 1]]])

AllInDf(s, cells) == \A i \in 1..Len(cells) : InDf(s, cells[i].row, cells[i].col)

MarkModified(s, cells) ==
  [s EXCEPT !.modified = TRUE,
            !.modified_cells = @ \cup {<<cells[i].row, cells[i].col>> : i \in 1..Len(cells)}]

(***************************************************************************)
(* delete_selected_cell_contents: one command for the non-empty cells;     *)
(* the display is blanked under the applying_delete flag.                  *)
(***************************************************************************)
DeleteSelectedCellContents(s, sel) ==
  IF ~s.edit_mode THEN s
  ELSE
    LET cells == SelectedCells(sel) IN
      IF ~AllInDf(s, cells) THEN Abort(s)
      ELSE
        LET nonempty == SelectSeq(cells, LAMBDA c : ~IsNa(Iloc(s, c.row, c.col)))
            changes == [i \in 1..Len(nonempty) |->
                          Change(nonempty[i].row, nonempty[i].col,
                                 Iloc(s, nonempty[i].row, nonempty[i].col), Null)]
        IN
          IF changes = <<>> THEN s
          ELSE
            LET s1 == Push(s, changes)
                s2 == [s1 EXCEPT
                         !.df = [r \in 1..DfRows(s) |-> [c \in 1..DfCols(s) |->
                                   IF \E i \in 1..Len(changes) :
                                        changes[i].row = r - 1 /\ changes[i].col = c - 1
                                   THEN Null ELSE s.df[r][c]]],
                         !.table = [r \in 1..RowCount(s) |-> [c \in 1..ColumnCount(s) |->
                                   IF \E i \in 1..Len(changes) :
                                        changes[i].row = r - 1 /\ changes[i].col = c - 1
                                   THEN <<>> ELSE s.table[r][c]]]]
            IN UpdateColumnTotals(MarkModified(s2, nonempty))

(***************************************************************************)
(* calculate_selection_stats: the status bar's Count, Sum and Average of   *)
(* the selected cells.  Amounts are kept in hundredths; f"{x:,.2f}" rounds *)
(* to the nearest hundredth (no tie arises below eight numeric cells).     *)
(***************************************************************************)
TwoDecimals(hundredths) ==
  PyFormatComma(hundredths \div 100)
    \o <<".", DigitSeq[((hundredths \div 10) % 10) + 1], DigitSeq[(hundredths % 10) + 1]>>

RECURSIVE StatsLoop(_, _, _, _)
StatsLoop(s, cells, i, acc) ==
  IF i > Len(cells) THEN acc
  ELSE
    LET text == s.table[cells[i].row + 1][cells[i].col + 1]
        counted == [acc EXCEPT !.total_cells = @ + 1]
    IN StatsLoop(s, cells, i + 1,
         IF ~IsNumericText(text) THEN counted
         ELSE IF IsInfText(text)
           THEN [counted EXCEPT !.numeric_values = @ + 1, !.infinite = TRUE]
         ELSE [counted EXCEPT !.numeric_values = @ + 1,
                              !.sum_val = @ + NumericOf(text)])

StatsText(acc) ==
  [count |-> PyFormatComma(acc.total_cells),
   numeric |-> acc.numeric_values > 0,
   sum |-> IF acc.numeric_values = 0 THEN <<>>
           ELSE IF acc.infinite THEN InfText
           ELSE TwoDecimals(100 * acc.sum_val),
   average |-> IF acc.numeric_values = 0 THEN <<>>
               ELSE IF acc.infinite THEN InfText
               ELSE TwoDecimals((200 * acc.sum_val + acc.numeric_values)
                                  \div (2 * acc.numeric_values))]

NoStats == [total_cells |-> 0, numeric_values |-> 0, sum_val |-> 0, infinite |-> FALSE]

\* calculate_selection_stats counting only the cells that are numeric.
CalculateSelectionStatsOfNumeric(s, sel) ==
  LET acc == StatsLoop(s, SelectedCells(sel), 1, NoStats)
  IN StatsText([acc EXCEPT !.total_cells = acc.numeric_values])

CalculateSelectionStats(s, sel) ==
  StatsText(StatsLoop(s, SelectedCells(sel), 1, NoStats))

(***************************************************************************)
(* copy_cells / cut_cells.                                                 *)
(***************************************************************************)
CopyCells(s, sel) ==
  [s EXCEPT !.clipboard_data =
     [set |-> TRUE,
      data |-> [i \in 1..(sel.bottom - sel.top + 1) |->
                 [j \in 1..(sel.right - sel.left + 1) |->
                    s.table[sel.top + i][sel.left + j]]]]]

RECURSIVE CutLoop(_, _, _)
CutLoop(s, cells, i) ==
  IF i > Len(cells) \/ s.crashed THEN s
  ELSE
    LET row == cells[i].row
        col == cells[i].col
    IN
      IF ~InDf(s, row, col) THEN Abort(s)
      ELSE
        LET old_value == Iloc(s, row, col)
            s1 == Push(s, <<Change(row, col, old_value, Null)>>)
            s2 == SetIloc(s1, row, col, Null)
            s3 == SetText(s2, row, col, <<>>, MaxFuel)
            s4 == [s3 EXCEPT !.modified = TRUE,
                             !.modified_cells = @ \cup {<<row, col>>}]
        IN CutLoop(s4, cells, i + 1)

CutCells(s, sel) ==
  LET s1 == CopyCells(s, sel) IN
    IF s1.edit_mode THEN CutLoop(s1, SelectedCells(sel), 1) ELSE s1

(***************************************************************************)
(* paste_cells: a single clipboard value fills the selection, a block is   *)
(* pasted from the selection's top-left corner; one command for all cells. *)
(***************************************************************************)
PasteTargets(s, sel, data) ==
  LET all == IF Len(data) = 1 /\ Len(data[1]) = 1
             THEN [i \in 1..Len(SelectedCells(sel)) |->
                     [row |-> SelectedCells(sel)[i].row,
                      col |-> SelectedCells(sel)[i].col,
                      value |-> data[1][1]]]
             ELSE Flatten([i \in 1..Len(data) |-> [j \in 1..Len(data[i]) |->
                     [row |-> sel.top + i - 1, col |-> sel.left + j - 1,
                      value |-> data[i][j]]]])
  IN SelectSeq(all, LAMBDA x : ~(x.row >= RowCount(s) - 1 \/ x.col >= ColumnCount(s)))

PasteConvert(s, target) ==
  LET dtype == ColumnTypesGet(s, s.header[target.col + 1]) IN
    IF dtype # NoDtype THEN ConvertValue(target.value, dtype)
    ELSE [ok |-> TRUE, fatal |-> FALSE, v |-> StrV(target.value)]

RECURSIVE PasteApply(_, _, _)
PasteApply(s, changes, i) ==
  IF i > Len(changes) \/ s.crashed THEN s
  ELSE
    LET ch == changes[i]
        s1 == SetIloc(s, ch.row, ch.col, ch.new)
        s2 == SetText(s1, ch.row, ch.col, DisplayConverted(ch.new), MaxFuel)
        s3 == [s2 EXCEPT !.modified_cells = @ \cup {<<ch.row, ch.col>>}]
    IN PasteApply(s3, changes, i + 1)

\* paste_cells without the assignment of the dirty flag.
PasteCellsLeavesClean(s, sel, system_clipboard) ==
  IF ~s.edit_mode THEN s
  ELSE
    LET data == IF s.clipboard_data.set THEN s.clipboard_data.data
                ELSE system_clipboard
        targets == PasteTargets(s, sel, data)
        convertible == SelectSeq(targets, LAMBDA x : PasteConvert(s, x).ok)
    IN
      IF \E i \in 1..Len(targets) : PasteConvert(s, targets[i]).fatal THEN Abort(s)
      ELSE IF \E i \in 1..Len(convertible) :
            ~InDf(s, convertible[i].row, convertible[i].col)
      THEN Abort(s)
      ELSE
        LET changes == [i \in 1..Len(convertible) |->
                          Change(convertible[i].row, convertible[i].col,
                                 Iloc(s, convertible[i].row, convertible[i].col),
                                 PasteConvert(s, convertible[i]).v)]
        IN
          IF changes = <<>> THEN s
          ELSE
            LET s1 == Push(s, changes)
                s2 == PasteApply(s1, changes, 1)
            IN UpdateColumnTotals(s2)

PasteCells(s, sel, system_clipboard) ==
  IF ~s.edit_mode THEN s
  ELSE
    LET data == IF s.clipboard_data.set THEN s.clipboard_data.data
                ELSE system_clipboard
        targets == PasteTargets(s, sel, data)
        convertible == SelectSeq(targets, LAMBDA x : PasteConvert(s, x).ok)
    IN
      IF \E i \in 1..Len(targets) : PasteConvert(s, targets[i]).fatal THEN Abort(s)
      ELSE IF \E i \in 1..Len(convertible) :
            ~InDf(s, convertible[i].row, convertible[i].col)
      THEN Abort(s)
      ELSE
        LET changes == [i \in 1..Len(convertible) |->
                          Change(convertible[i].row, convertible[i].col,
                                 Iloc(s, convertible[i].row, convertible[i].col),
                                 PasteConvert(s, convertible[i]).v)]
        IN
          IF changes = <<>> THEN s
          ELSE
            LET s1 == Push(s, changes)
                s2 == PasteApply(s1, changes, 1)
            IN UpdateColumnTotals([s2 EXCEPT !.modified = TRUE])

(***************************************************************************)
(* Files.  A file on disk holds the columns, their dtypes and the rows.    *)
(***************************************************************************)
Files == {"a.parquet", "b.parquet", "c.parquet"}

Missing == [exists |-> FALSE, columns |-> <<>>, dtypes |-> <<>>, rows |-> <<>>]

ColumnValues(s, c) == {s.df[r][c] : r \in 1..DfRows(s)}

\* to_parquet needs every column to hold values of one kind.
Writable(s) ==
  \A c \in 1..DfCols(s) :
     \A v, w \in ColumnValues(s, c) : (IsNa(v) \/ IsNa(w)) \/ v.t = w.t

WrittenDtype(s, c) ==
  IF \E v \in ColumnValues(s, c) : v.t = "str" THEN "object"
  ELSE IF \E v \in ColumnValues(s, c) : v.t = "int" THEN "int64"
  ELSE IF \E v \in ColumnValues(s, c) : v.t = "bool" THEN "bool"
  ELSE IF s.df_columns[c] \in DOMAIN s.column_types
       THEN s.column_types[s.df_columns[c]]
  ELSE "object"

ToParquet(s) ==
  [exists |-> TRUE, columns |-> s.df_columns,
   dtypes |-> [c \in 1..DfCols(s) |-> WrittenDtype(s, c)], rows |-> s.df]

\* save_file leaving the command stack alone after the write.
SaveFileKeepsHistory(s, io_ok) ==
  IF io_ok /\ Writable(s)
  THEN [s EXCEPT !.disk[s.current_file] = ToParquet(s),
                 !.modified = FALSE,
                 !.modified_cells = {}]
  ELSE s

SaveFile(s, io_ok) ==
  IF io_ok /\ Writable(s)
  THEN Clear([s EXCEPT !.disk[s.current_file] = ToParquet(s),
                       !.modified = FALSE,
                       !.modified_cells = {}])
  ELSE s

SaveFileAs(s, file_name, io_ok) ==
  IF ~s.has_df THEN s
  ELSE IF file_name # NoFile
  THEN SaveFile([s EXCEPT !.current_file = file_name], io_ok)
  ELSE s

Save(s, file_name, io_ok) ==
  IF s.current_file = NoFile THEN SaveFileAs(s, file_name, io_ok)
  ELSE SaveFile(s, io_ok)

Saved(s, file_name, io_ok) ==
  /\ io_ok /\ Writable(s)
  /\ s.current_file = NoFile => (s.has_df /\ file_name # NoFile)

RECURSIVE Populate(_, _, _)
Populate(s, cells, i) ==
  IF i > Len(cells) \/ s.crashed THEN s
  ELSE Populate(OnCellChanged(s, cells[i].row, cells[i].col, MaxFuel), cells, i + 1)

ColumnMajor(nrows, ncols) ==
  Flatten([j \in 1..ncols |-> [i \in 1..nrows |-> [row |-> i - 1, col |-> j - 1]]])

\* pd.isna of an array of two or more elements is an array, and `if` on it
\* raises ValueError.
Unshowable(v) == v.t = "list"

LoadParquetFile(s, file_name, read_ok) ==
  IF ~(read_ok /\ s.disk[file_name].exists) THEN s
  ELSE
    LET content == s.disk[file_name]
        nrows == Len(content.rows)
        ncols == Len(content.columns)
        cells == ColumnMajor(nrows, ncols)
        raising == {i \in 1..Len(cells) :
                      Unshowable(content.rows[cells[i].row + 1][cells[i].col + 1])}
        shown == IF raising = {} THEN Len(cells)
                 ELSE (CHOOSE i \in raising : \A j \in raising : i <= j) - 1
        s1 == [s EXCEPT
                 !.has_df = TRUE,
                 !.df_columns = content.columns,
                 !.df = content.rows,
                 !.column_types =
                    [name \in {content.columns[c] : c \in 1..ncols} |->
                       content.dtypes[CHOOSE c \in 1..ncols : content.columns[c] = name]],
                 !.header = content.columns,
                 !.table = [r \in 1..nrows |-> [c \in 1..ncols |->
                              IF (c - 1) * nrows + r <= shown
                              THEN DisplayStored(content.rows[r][c]) ELSE <<>>]],
                 !.hidden = [r \in 1..nrows |-> FALSE]]
        s2 == Populate(s1, SubSeq(cells, 1, shown), 1)
        s3 == Clear([s2 EXCEPT !.current_file = file_name,
                               !.modified = FALSE,
                               !.modified_cells = {},
                               !.filters = EmptyDict])
    IN IF raising # {} THEN s2 ELSE UpdateColumnTotals(s3)

RevertAllChanges(s) ==
  IF s.current_file # NoFile /\ s.disk[s.current_file].exists
  THEN LoadParquetFile(s, s.current_file, TRUE)
  ELSE s

(***************************************************************************)
(* toggle_edit_mode and check_unsaved_changes.                             *)
(***************************************************************************)
RowCells(row, ncols) == [j \in 1..ncols |-> [row |-> row, col |-> j - 1]]

\* The table's cells row by row.
RowMajor(nrows, ncols) == Flatten([i \in 1..nrows |-> RowCells(i - 1, ncols)])

\* The tail of toggle_edit_mode.  QTableWidgetItem.setFlags emits itemChanged
\* for each item, with edit_mode already assigned.
EnterOrLeave(s) ==
  LET s1 == [s EXCEPT !.edit_mode = ~s.edit_mode]
      s2 == Populate(s1, RowMajor(RowCount(s1), ColumnCount(s1)), 1)
  IN
    IF s2.crashed THEN s2
    ELSE IF s2.edit_mode
    THEN Clear([s2 EXCEPT !.modified = FALSE, !.modified_cells = {}])
    ELSE s2

\* toggle_edit_mode going on to leave edit mode whatever the prompt returns.
ToggleEditModeIgnoresAnswer(s, choice, file_name, io_ok) ==
  IF s.modified /\ s.edit_mode THEN
    IF choice = "save" THEN EnterOrLeave(Save(s, file_name, io_ok))
    ELSE IF choice = "no" THEN EnterOrLeave(RevertAllChanges(s))
    ELSE EnterOrLeave(s)
  ELSE EnterOrLeave(s)

ToggleEditMode(s, choice, file_name, io_ok) ==
  IF s.modified /\ s.edit_mode THEN
    IF choice = "save" THEN
      IF Saved(s, file_name, io_ok)
      THEN EnterOrLeave(Save(s, file_name, io_ok))
      ELSE Save(s, file_name, io_ok)
    ELSE IF choice = "no" THEN
      EnterOrLeave(RevertAllChanges(s))
    ELSE s
  ELSE EnterOrLeave(s)

\* check_unsaved_changes returns TRUE when the caller may proceed.
MayProceed(s, choice, file_name, io_ok) ==
  IF s.modified
  THEN IF choice = "save" THEN Saved(s, file_name, io_ok) ELSE choice = "no"
  ELSE TRUE

CheckUnsavedChanges(s, choice, file_name, io_ok) ==
  IF s.modified /\ choice = "save" THEN Save(s, file_name, io_ok) ELSE s

OpenFile(s, choice, file_name, io_ok, open_name, read_ok) ==
  LET s1 == CheckUnsavedChanges(s, choice, file_name, io_ok) IN
    IF ~MayProceed(s, choice, file_name, io_ok) THEN s1
    ELSE IF open_name = NoFile THEN s1
    ELSE LoadParquetFile(s1, open_name, read_ok)

(***************************************************************************)
(* Rows and columns.                                                       *)
(***************************************************************************)
InsertAt(seq, pos, x) == SubSeq(seq, 1, pos) \o <<x>> \o SubSeq(seq, pos + 1, Len(seq))

RemoveAll(seq, indices) ==
  LET keep == SelectSeq([i \in 1..Len(seq) |-> i], LAMBDA i : (i - 1) \notin indices)
  IN [k \in 1..Len(keep) |-> seq[keep[k]]]

Min(a, b) == IF a < b THEN a ELSE b

\* insert_row without its test of the edit mode.
InsertRowInAnyMode(s, row_index) ==
  IF ~s.has_df THEN Abort(s)
  ELSE
    LET s1 == [s EXCEPT
                 !.df = InsertAt(@, Min(row_index, DfRows(s)),
                                 [c \in 1..DfCols(s) |-> Null]),
                 !.table = InsertAt(@, row_index, [c \in 1..ColumnCount(s) |-> <<>>]),
                 !.hidden = InsertAt(@, row_index, FALSE)]
        s2 == Populate(s1, RowCells(row_index, ColumnCount(s)), 1)
    IN UpdateColumnTotals([s2 EXCEPT !.modified = TRUE])

InsertRow(s, row_index) ==
  IF ~s.edit_mode THEN s
  ELSE IF ~s.has_df THEN Abort(s)
  ELSE
    LET s1 == [s EXCEPT
                 !.df = InsertAt(@, Min(row_index, DfRows(s)),
                                 [c \in 1..DfCols(s) |-> Null]),
                 !.table = InsertAt(@, row_index, [c \in 1..ColumnCount(s) |-> <<>>]),
                 !.hidden = InsertAt(@, row_index, FALSE)]
        s2 == Populate(s1, RowCells(row_index, ColumnCount(s)), 1)
    IN UpdateColumnTotals([s2 EXCEPT !.modified = TRUE])

\* Removal of the rows one by one in ascending order, each at its index in
\* the sequence as the removals before it left it.
RECURSIVE RemoveAscending(_, _, _)
RemoveAscending(seq, indices, shift) ==
  IF indices = {} THEN seq
  ELSE
    LET first == CHOOSE i \in indices : \A j \in indices : i <= j
        rest == indices \ {first}
    IN IF first + 1 > Len(seq) THEN RemoveAscending(seq, rest, shift)
       ELSE RemoveAscending(SubSeq(seq, 1, first) \o SubSeq(seq, first + 2, Len(seq)),
                            rest, shift)

\* delete_row removing the table's rows in ascending instead of reverse order.
DeleteRowAscending(s, rows_to_delete, confirmed) ==
  IF ~s.edit_mode THEN s
  ELSE IF ~confirmed THEN s
  ELSE IF \E r \in rows_to_delete : r >= DfRows(s) THEN Abort(s)
  ELSE
    UpdateColumnTotals(
      [s EXCEPT !.df = RemoveAll(@, rows_to_delete),
                !.table = RemoveAscending(@, rows_to_delete, 0),
                !.hidden = RemoveAscending(@, rows_to_delete, 0),
                !.modified = TRUE])

DeleteRow(s, rows_to_delete, confirmed) ==
  IF ~s.edit_mode THEN s
  ELSE IF ~confirmed THEN s
  ELSE IF \E r \in rows_to_delete : r >= DfRows(s) THEN Abort(s)
  ELSE
    UpdateColumnTotals(
      [s EXCEPT !.df = RemoveAll(@, rows_to_delete),
                !.table = RemoveAll(@, rows_to_delete),
                !.hidden = RemoveAll(@, rows_to_delete),
                !.modified = TRUE])

DeleteColumn(s, columns_to_delete, confirmed) ==
  IF ~s.edit_mode THEN s
  ELSE IF ~confirmed THEN s
  ELSE
    LET column_names == {s.header[c + 1] : c \in columns_to_delete} IN
      IF \E name \in column_names : \A c \in 1..DfCols(s) : s.df_columns[c] # name
      THEN Abort(s)
      ELSE
        LET dropped == {c \in 0..(DfCols(s) - 1) : s.df_columns[c + 1] \in column_names}
        IN UpdateColumnTotals(
             [s EXCEPT
                !.df_columns = RemoveAll(@, dropped),
                !.df = [r \in 1..DfRows(s) |-> RemoveAll(s.df[r], dropped)],
                !.header = RemoveAll(@, columns_to_delete),
                !.table = [r \in 1..RowCount(s) |->
                             RemoveAll(s.table[r], columns_to_delete)],
                !.modified = TRUE])

DtypeMap(type_name) ==
  CASE type_name = "Text" -> "object"
    [] type_name = "Integer" -> "int64"
    [] type_name = "Boolean" -> "bool"

\* pd.Series([default] * n, dtype=dtype): None cannot be cast to int64.
SeriesOk(default_value, dtype, n) == ~(n > 0 /\ IsNa(default_value) /\ dtype = "int64")

AddNewColumn(s, position, accepted, name_input, type_name, default_input) ==
  IF ~s.edit_mode THEN s
  ELSE IF ~accepted THEN s
  ELSE
    LET column_name == Strip(name_input)
        dtype == DtypeMap(type_name)
        default_value_str == Strip(default_input)
        conv == ConvertValue(default_value_str, dtype)
        num_cols == ColumnCount(s)
        col_idx == IF position < 0 \/ position > num_cols THEN num_cols ELSE position
    IN
      IF column_name = <<>> THEN s
      ELSE IF ~s.has_df THEN Abort(s)
      ELSE IF \E c \in 1..DfCols(s) : s.df_columns[c] = column_name THEN s
      ELSE IF conv.fatal THEN Abort(s)
      ELSE IF ~conv.ok THEN s
      ELSE IF col_idx > DfCols(s) \/ ~SeriesOk(conv.v, dtype, DfRows(s)) THEN Abort(s)
      ELSE
        UpdateColumnTotals(
          [s EXCEPT
             !.df_columns = InsertAt(@, col_idx, column_name),
             !.df = [r \in 1..DfRows(s) |->
                       InsertAt(s.df[r], col_idx, conv.v)],
             !.column_types = DictSet(@, column_name, dtype),
             !.header = InsertAt(@, col_idx, column_name),
             !.table = [r \in 1..RowCount(s) |->
                          InsertAt(s.table[r], col_idx, DisplayConverted(conv.v))],
             !.modified = TRUE])

CreateNewFile(s, choice, file_name, io_ok, accepted, name_input, type_name, default_input) ==
  LET s1 == CheckUnsavedChanges(s, choice, file_name, io_ok) IN
    IF ~MayProceed(s, choice, file_name, io_ok) THEN s1
    ELSE
      LET s2 == Clear([s1 EXCEPT
                   !.has_df = TRUE,
                   !.df_columns = <<>>,
                   !.df = <<>>,
                   !.column_types = EmptyDict,
                   !.header = <<>>,
                   !.table = <<<<>>>>,
                   !.hidden = IF RowCount(s1) >= 1 THEN <<s1.hidden[1]>> ELSE <<FALSE>>,
                   !.current_file = NoFile,
                   !.modified = FALSE,
                   !.modified_cells = {},
                   !.filters = EmptyDict,
                   !.edit_mode = TRUE])
      IN AddNewColumn(s2, -1, accepted, name_input, type_name, default_input)

(***************************************************************************)
(* Inputs.                                                                 *)
(***************************************************************************)
Bob == <<"B", "o", "b">>

InputTexts == {<<>>, <<"2", ",", "0", "0", "0">>, <<"1", "2", "x">>}

FilterTexts == {<<>>, <<"7">>}

ColumnNameInputs == {<<>>, <<"i", "d">>, <<"q">>}

DialogTypes == {"Text", "Integer"}

DefaultInputs == {<<>>, <<"7">>}

SystemClipboards == {<<<<t>>>> : t \in InputTexts \ {<<>>}}

Choices == {"save", "no", "cancel"}

FilterColumns == {0}

SortColumns == {0}

SaveAsNames == {"b.parquet", NoFile}

OpenNames == {"a.parquet", NoFile}

MaxSelCells == 2

Selections(s) ==
  {sel \in [top : 0..(RowCount(s) - 1), bottom : 0..(RowCount(s) - 1),
            left : 0..(ColumnCount(s) - 1), right : 0..(ColumnCount(s) - 1)] :
     /\ sel.top <= sel.bottom
     /\ sel.left <= sel.right
     /\ (sel.bottom - sel.top + 1) * (sel.right - sel.left + 1) <= MaxSelCells}

\* A file with a list column.
ListFile ==
  [exists |-> TRUE,
   columns |-> <<<<"x">>>>,
   dtypes |-> <<"object">>,
   rows |-> <<<<ListV(<<"[", "1", " ", "2", "]">>)>>>>]

InitialFile ==
  [exists |-> TRUE,
   columns |-> <<<<"i", "d">>, <<"n", "a", "m", "e">>>>,
   dtypes |-> <<"int64", "object">>,
   rows |-> <<<<IntV(7), StrV(Bob)>>, <<IntV(2000), Null>>>>]

Constructed(em) ==
  [has_df |-> FALSE, df_columns |-> <<>>, df |-> <<>>,
   column_types |-> EmptyDict, header |-> <<>>, table |-> <<>>,
   hidden |-> <<>>, totals |-> <<>>, filters |-> EmptyDict,
   column_sort_states |-> EmptyDict, current_file |-> NoFile,
   disk |-> [f \in Files |-> IF f = "a.parquet" THEN InitialFile
                             ELSE IF f = "c.parquet" THEN ListFile ELSE Missing],
   modified |-> FALSE, edit_mode |-> em, modified_cells |-> {},
   undo_stack |-> <<>>, redo_stack |-> <<>>,
   clipboard_data |-> NoClipboard, crashed |-> FALSE]

Is(s) ==
  /\ has_df = s.has_df /\ df_columns = s.df_columns /\ df = s.df
  /\ column_types = s.column_types /\ header = s.header /\ table = s.table
  /\ hidden = s.hidden /\ totals = s.totals /\ filters = s.filters
  /\ column_sort_states = s.column_sort_states
  /\ current_file = s.current_file /\ disk = s.disk
  /\ modified = s.modified /\ edit_mode = s.edit_mode
  /\ modified_cells = s.modified_cells
  /\ undo_stack = s.undo_stack /\ redo_stack = s.redo_stack
  /\ clipboard_data = s.clipboard_data /\ crashed = s.crashed
  /\ edited_df = s.df

\* The window as constructed; edit_mode comes from the settings file.
Init == \E em \in BOOLEAN : Is(Constructed(em))

\* The window after its first Open of a.parquet.
InitLoaded ==
  \E em \in BOOLEAN : Is(LoadParquetFile(Constructed(em), "a.parquet", TRUE))

(***************************************************************************)
(* Actions: one per user operation.  A handler that raises an unhandled    *)
(* exception kills the process.                                            *)
(***************************************************************************)
\* An operation that may commit an edit of cell contents.
DoEdit(s) ==
  IF s.crashed THEN Becomes(Abort(St)) /\ UNCHANGED edited_df
  ELSE /\ Becomes(s)
       /\ edited_df' = IF s.undo_stack = undo_stack THEN edited_df ELSE s.df

\* Undo, redo and the operations on the view.
DoKeep(s) ==
  IF s.crashed THEN Becomes(Abort(St)) /\ UNCHANGED edited_df
  ELSE Becomes(s) /\ UNCHANGED edited_df

\* Operations on files, rows and columns.
Do(s) ==
  IF s.crashed THEN Becomes(Abort(St)) /\ UNCHANGED edited_df
  ELSE Becomes(s) /\ edited_df' = s.df

\* Bounds on the stacks: a new command is accepted while the stacks have
\* room; undo and redo are explored while both stacks together are within
\* the bound.
StackRoom == Len(undo_stack) + Len(redo_stack) < MaxStack

StackWithin == Len(undo_stack) + Len(redo_stack) <= MaxStack

CellEdit ==
  /\ ~crashed /\ edit_mode /\ StackRoom
  /\ \E row \in 0..(RowCount(St) - 1), col \in 0..(ColumnCount(St) - 1),
        text \in InputTexts :
       /\ ~hidden[row + 1]
       /\ DoEdit(SetText(St, row, col, text, MaxFuel))

Undo == ~crashed /\ StackWithin /\ DoKeep(UndoEdit(St))

Redo == ~crashed /\ StackWithin /\ DoKeep(RedoEdit(St))

DeleteSelection ==
  /\ ~crashed /\ StackRoom
  /\ \E sel \in Selections(St) : DoEdit(DeleteSelectedCellContents(St, sel))

Copy == ~crashed /\ \E sel \in Selections(St) : DoKeep(CopyCells(St, sel))

Cut ==
  /\ ~crashed /\ StackRoom
  /\ \E sel \in Selections(St) : DoEdit(CutCells(St, sel))

Paste ==
  /\ ~crashed /\ StackRoom
  /\ \E sel \in Selections(St), clip \in SystemClipboards :
       DoEdit(PasteCells(St, sel, clip))

SetFilter ==
  /\ ~crashed
  /\ \E column \in FilterColumns, text \in FilterTexts :
       column < ColumnCount(St) /\ DoKeep(ShowFilterDialog(St, column, text))

ClearOneFilter ==
  /\ ~crashed
  /\ \E column \in FilterColumns :
       column < ColumnCount(St) /\ DoKeep(ClearFilter(St, column))

ClearFilters == ~crashed /\ DoKeep(ClearAllFilters(St))

Sort ==
  /\ ~crashed
  /\ \E column \in SortColumns :
       column < ColumnCount(St) /\ DoKeep(ToggleColumnSort(St, column))

\* Saves are explored while the disk is as the session found it.
DiskRoom == disk = Constructed(TRUE).disk

SaveStep(file_name, io_ok) ==
  ~crashed /\ DiskRoom /\ Do(Save(St, file_name, io_ok))

SaveAction == \E file_name \in SaveAsNames, io_ok \in BOOLEAN : SaveStep(file_name, io_ok)

SaveAsStep(file_name, io_ok) ==
  ~crashed /\ DiskRoom /\ Do(SaveFileAs(St, file_name, io_ok))

SaveAsAction ==
  \E file_name \in SaveAsNames, io_ok \in BOOLEAN : SaveAsStep(file_name, io_ok)

\* The answers to the "Save Changes?" prompt that make a difference: the
\* prompt is shown to a modified session only, the save dialog to an untitled
\* one only.
SaveAnswers(s) ==
  IF ~s.modified
  THEN {[choice |-> "cancel", file_name |-> NoFile, io_ok |-> TRUE]}
  ELSE {[choice |-> c, file_name |-> NoFile, io_ok |-> TRUE] : c \in Choices \ {"save"}}
       \cup {[choice |-> "save", file_name |-> f, io_ok |-> b] :
               f \in (IF s.current_file = NoFile THEN SaveAsNames ELSE {NoFile}),
               b \in BOOLEAN}

\* The file dialog of open_file: dismissed, or a file that is read or not.
OpenTargets ==
  {[name |-> NoFile, read_ok |-> TRUE]}
  \cup {[name |-> f, read_ok |-> b] : f \in OpenNames \ {NoFile}, b \in BOOLEAN}

\* The new-column dialog: dismissed, or accepted with its three fields.
ColumnDialogs ==
  {[accepted |-> FALSE, name |-> <<>>, type |-> "Text", default |-> <<>>]}
  \cup {[accepted |-> TRUE, name |-> n, type |-> t, default |-> d] :
          n \in ColumnNameInputs, t \in DialogTypes, d \in DefaultInputs}

ToggleStep(answer) ==
  /\ ~crashed /\ (answer.choice = "save" => DiskRoom)
  /\ Do(ToggleEditMode(St, answer.choice, answer.file_name, answer.io_ok))

ToggleEdit == \E answer \in SaveAnswers(St) : ToggleStep(answer)

OpenStep(answer, target) ==
  /\ ~crashed /\ (answer.choice = "save" => DiskRoom)
  /\ Do(OpenFile(St, answer.choice, answer.file_name, answer.io_ok,
                 target.name, target.read_ok))

Open == \E answer \in SaveAnswers(St), target \in OpenTargets : OpenStep(answer, target)

NewFileStep(answer, dialog) ==
  /\ ~crashed /\ (answer.choice = "save" => DiskRoom)
  /\ Do(CreateNewFile(St, answer.choice, answer.file_name, answer.io_ok,
                      dialog.accepted, dialog.name, dialog.type, dialog.default))

NewFile ==
  \E answer \in SaveAnswers(St), dialog \in ColumnDialogs : NewFileStep(answer, dialog)

AddRow ==
  /\ ~crashed /\ RowCount(St) < MaxRows
  /\ \E row_index \in 0..RowCount(St) : Do(InsertRow(St, row_index))

RemoveRows ==
  /\ ~crashed /\ edit_mode
  /\ \E rows \in (SUBSET (0..(RowCount(St) - 1))) \ {{}}, confirmed \in BOOLEAN :
       Do(DeleteRow(St, rows, confirmed))

RemoveColumns ==
  /\ ~crashed
  /\ \E columns \in (SUBSET (0..(ColumnCount(St) - 1))) \ {{}},
        confirmed \in BOOLEAN :
       Do(DeleteColumn(St, columns, confirmed))

AddColumn ==
  /\ ~crashed /\ ColumnCount(St) < MaxCols
  /\ \E position \in (-1)..ColumnCount(St), dialog \in ColumnDialogs :
       Do(AddNewColumn(St, position, dialog.accepted, dialog.name,
                       dialog.type, dialog.default))

(***************************************************************************)
(* Spec: an edit session on the loaded table -- edits of cell contents,    *)
(* undo/redo and filters.                                                  *)
(***************************************************************************)
Next ==
  \/ CellEdit
  \/ Undo
  \/ Redo
  \/ DeleteSelection
  \/ Cut
  \/ Paste
  \/ SetFilter
  \/ ClearOneFilter

Spec == InitLoaded /\ [][Next]_vars

(***************************************************************************)
(* SpecEdits: the loaded table with edits of cell contents, undo and redo  *)
(* and nothing else.                                                       *)
(***************************************************************************)
NextEdits ==
  \/ CellEdit
  \/ DeleteSelection
  \/ Cut
  \/ Paste
  \/ Undo
  \/ Redo

SpecEdits == InitLoaded /\ [][NextEdits]_vars

(***************************************************************************)
(* SpecRows: edits of cell contents together with row insertion and        *)
(* deletion.                                                               *)
(***************************************************************************)
NextRows ==
  \/ CellEdit
  \/ Undo
  \/ Redo
  \/ AddRow
  \/ RemoveRows

SpecRows == InitLoaded /\ [][NextRows]_vars

(***************************************************************************)
(* SpecColumns: column insertion and deletion together with deletion of    *)
(* cell contents.                                                          *)
(***************************************************************************)
NextColumns ==
  \/ DeleteSelection
  \/ AddColumn
  \/ RemoveColumns

SpecColumns == InitLoaded /\ [][NextColumns]_vars

(***************************************************************************)
(* SpecFile: edits of cell contents together with Save and Save As.        *)
(***************************************************************************)
NextFile ==
  \/ CellEdit
  \/ Undo
  \/ Redo
  \/ SetFilter
  \/ SaveAction
  \/ SaveAsAction

SpecFile == InitLoaded /\ [][NextFile]_vars

(***************************************************************************)
(* SpecSession: edits of cell contents together with the operations that   *)
(* ask about unsaved changes: leaving edit mode, Open and New.             *)
(***************************************************************************)
NextSession ==
  \/ CellEdit
  \/ Undo
  \/ Redo
  \/ ToggleEdit
  \/ Open
  \/ NewFile

SpecSession == InitLoaded /\ [][NextSession]_vars

(***************************************************************************)
(* SpecView: sorting and filtering, with deletion of cell contents, undo    *)
(* and Open.                                                               *)
(***************************************************************************)
NextView ==
  \/ Sort
  \/ SetFilter
  \/ ClearFilters
  \/ DeleteSelection
  \/ Undo
  \/ Open

SpecView == InitLoaded /\ [][NextView]_vars

(***************************************************************************)
(* Properties of the edit session (Spec).                                  *)
(***************************************************************************)
\* The DataFrame as load_parquet_file read it from a.parquet.
LoadedDf == InitialFile.rows

CellAt(d, row, col) == d[row + 1][col + 1]

LastOf(stack) == stack[Len(stack)]

\* A step of one of the operations that commit a mutation of cell contents.
Commit == (CellEdit \/ DeleteSelection \/ Cut \/ Paste) /\ undo_stack' # undo_stack

UndoStep == Undo /\ edit_mode /\ undo_stack # <<>>

RedoStep == Redo /\ edit_mode /\ redo_stack # <<>>

\* C1: with the command stack untouched since the load, undoing until
\* can_undo() is false leaves every cell equal to its loaded value, and
\* redoing until can_redo() is false leaves every cell equal to its value
\* after the last committed edit.
C1_UndoAllRedoAll ==
  /\ undo_stack = <<>> => df = LoadedDf
  /\ redo_stack = <<>> => df = edited_df

\* C2: a committed mutation (cell edit, paste, cut, delete-selection) leaves
\* the redo sequence empty, and the last element of the undo sequence is the
\* command of that mutation: it takes its cells from their values before the
\* mutation to their values after it.
C2_PushClearsRedo ==
  [][Commit =>
       /\ redo_stack' = <<>>
       /\ undo_stack' # <<>>
       /\ LET command == LastOf(undo_stack') IN
            \A i \in 1..Len(command) :
               /\ command[i].old = CellAt(df, command[i].row, command[i].col)
               /\ command[i].new = CellAt(df', command[i].row, command[i].col)]_vars

\* Text that int(float(..)) rejects.
BadInteger == <<"1", "2", "x">>

DeclaredType(col) == ColumnTypesGet(St, df_columns[col + 1])

\* The same value shown, with or without thousands separators.
SameShown(a, b) == RemoveCommas(a) = RemoveCommas(b)

\* C3: in every session state, typing "12x" into a visible cell of a column
\* declared int64 changes nothing: the stored value, both stacks and the
\* dirty flag are as before and the cell shows its pre-edit value again.
C3_RejectedEditAtomic ==
  (has_df /\ edit_mode /\ ~crashed) =>
    \A row \in 0..(DfRows(St) - 1), col \in 0..(DfCols(St) - 1) :
       (DeclaredType(col) = "int64" /\ ~hidden[row + 1]) =>
          LET after == SetText(St, row, col, BadInteger, MaxFuel) IN
            /\ ~after.crashed
            /\ after.df = df
            /\ after.undo_stack = undo_stack
            /\ after.redo_stack = redo_stack
            /\ after.modified = modified
            /\ SameShown(CellAt(after.table, row, col), CellAt(table, row, col))

KindOf(dtype) ==
  CASE dtype = "int64" -> "int" [] dtype = "bool" -> "bool" [] OTHER -> "str"

\* C4: every stored cell is null or a value of the declared type of its
\* column, whether or not the column has an active filter.
C4_StoredValuesTyped ==
  has_df =>
    \A row \in 0..(DfRows(St) - 1), col \in 0..(DfCols(St) - 1) :
       DeclaredType(col) # NoDtype =>
          \/ IsNa(CellAt(df, row, col))
          \/ CellAt(df, row, col).t = KindOf(DeclaredType(col))

\* C7: undo with an empty undo sequence and redo with an empty redo sequence
\* leave the DataFrame, both sequences, the dirty flag and the modified-cell
\* set as they were, and raise nothing.
Untouched(after) ==
  /\ ~after.crashed
  /\ after.df = df /\ after.df_columns = df_columns
  /\ after.undo_stack = undo_stack /\ after.redo_stack = redo_stack
  /\ after.modified = modified /\ after.modified_cells = modified_cells

C7_EmptyUndoRedoNoOp ==
  ~crashed =>
    /\ undo_stack = <<>> => Untouched(UndoEdit(St))
    /\ redo_stack = <<>> => Untouched(RedoEdit(St))

\* Undo and redo are invoked on an empty sequence in edit mode, with the
\* other sequence holding a command.
C7_Witness ==
  /\ has_df /\ edit_mode /\ ~crashed
  /\ undo_stack = <<>> /\ redo_stack # <<>> /\ ~modified

ApplyCommand(d, command) ==
  [r \in 1..Len(d) |-> [c \in 1..Len(d[r]) |->
     LET hits == {i \in 1..Len(command) :
                    command[i].row = r - 1 /\ command[i].col = c - 1}
     IN IF hits = {} THEN d[r][c]
        ELSE command[CHOOSE i \in hits : \A j \in hits : j <= i].new]]

RECURSIVE Replay(_, _)
Replay(d, stack) ==
  IF stack = <<>> THEN d
  ELSE ApplyCommand(Replay(d, SubSeq(stack, 1, Len(stack) - 1)), LastOf(stack))

\* C8: the undo sequence is the forward-applied, not-yet-undone commands in
\* application order (replaying it over the loaded table gives the store);
\* a successful undo moves exactly the last command of undo to the end of
\* redo, and a successful redo moves exactly the last command of redo back.
C8_LinearHistory ==
  [][/\ df' = Replay(LoadedDf, undo_stack')
     /\ UndoStep =>
          /\ undo_stack' = SubSeq(undo_stack, 1, Len(undo_stack) - 1)
          /\ redo_stack' = Append(redo_stack, LastOf(undo_stack))
     /\ RedoStep =>
          /\ redo_stack' = SubSeq(redo_stack, 1, Len(redo_stack) - 1)
          /\ undo_stack' = Append(undo_stack, LastOf(redo_stack))]_vars

\* C6: on the freshly loaded table with only edits of cell contents, undo and
\* redo: a committed edit leaves the session dirty; the undo that empties the
\* undo sequence leaves it clean with every cell at its loaded value; every
\* successful redo leaves it dirty with the cells of the redone command at
\* the command's new values.
C6_DirtyFollowsUndoRedo ==
  [][/\ Commit => modified'
     /\ (UndoStep /\ undo_stack' = <<>>) => (~modified' /\ df' = LoadedDf)
     /\ RedoStep =>
          /\ modified'
          /\ LET command == LastOf(redo_stack) IN
               \A i \in 1..Len(command) :
                  CellAt(df', command[i].row, command[i].col) = command[i].new]_vars

\* Every command has been undone: the session is clean, the edits wait on the
\* redo sequence and the store is the loaded table again.
C6_Witness ==
  /\ edit_mode /\ ~crashed /\ ~modified
  /\ undo_stack = <<>> /\ redo_stack # <<>>
  /\ df = LoadedDf /\ edited_df # LoadedDf

(***************************************************************************)
(* Properties of the dirty flag and of saving (SpecRows, SpecFile).        *)
(***************************************************************************)
\* The table of the backing file, as last loaded or saved.
OnDisk == disk[current_file]

\* C5: whenever the DataFrame differs from the table last loaded or saved
\* (by edits of cells or by inserted or deleted rows), the dirty flag is set.
C5_DirtyWhileUnsaved ==
  (has_df /\ current_file # NoFile /\ OnDisk.exists) =>
     ((df # OnDisk.rows \/ df_columns # OnDisk.columns) => modified)

\* A save that writes the file: Save on the backing file, or Save As under a
\* chosen name.
SavedAs(file_name) == has_df /\ file_name # NoFile /\ Writable(St)

\* C9: a successful save leaves the dirty flag false, the modified-cell set
\* empty and both the undo and the redo sequence empty, and does not change
\* the DataFrame.
C9_SaveClearsSession ==
  [][\A file_name \in SaveAsNames :
       \/ SaveStep(file_name, TRUE) /\ Saved(St, file_name, TRUE)
       \/ SaveAsStep(file_name, TRUE) /\ SavedAs(file_name)
       => /\ ~modified' /\ modified_cells' = {}
          /\ undo_stack' = <<>> /\ redo_stack' = <<>>
          /\ df' = df /\ df_columns' = df_columns]_vars

\* An edited table has been saved: the file holds the edited DataFrame and
\* the session is clean with no history.
C9_Witness ==
  /\ has_df /\ ~crashed /\ ~modified /\ modified_cells = {}
  /\ undo_stack = <<>> /\ redo_stack = <<>>
  /\ df # LoadedDf /\ OnDisk.exists /\ OnDisk.rows = df

\* C10: a save that fails (Save or Save As) leaves the DataFrame, both
\* sequences, the modified-cell set, the backing file path and the dirty
\* flag as they were.
C10_FailedSaveUntouched ==
  [][\A file_name \in SaveAsNames \ {NoFile} :
       \/ SaveStep(file_name, FALSE)
       \/ SaveAsStep(file_name, FALSE) /\ has_df
       => /\ UNCHANGED <<df, df_columns, undo_stack, redo_stack, modified_cells>>
          /\ current_file' = current_file
          /\ modified' = modified]_vars

(***************************************************************************)
(* Properties of leaving edit mode, Open and New (SpecSession, SpecView).  *)
(***************************************************************************)
\* The prompt is answered Cancel, or Save and the save does not happen (it
\* fails, or the save dialog is dismissed).
Declined(answer) ==
  \/ answer.choice = "cancel"
  \/ answer.choice = "save" /\ ~Saved(St, answer.file_name, answer.io_ok)

AllAnswers ==
  {[choice |-> c, file_name |-> f, io_ok |-> b] :
     c \in Choices, f \in SaveAsNames, b \in BOOLEAN}

\* C11: leaving edit mode with unsaved changes, answered Cancel or answered
\* Save with a save that fails or is dismissed, leaves the session in edit
\* mode with the DataFrame, both command sequences and the dirty flag as
\* they were.
C11_DeclinedLeaveKeepsEditing ==
  (edit_mode /\ modified /\ ~crashed) =>
    \A answer \in AllAnswers :
       Declined(answer) =>
          LET after == ToggleEditMode(St, answer.choice, answer.file_name,
                                      answer.io_ok)
          IN /\ ~after.crashed /\ after.edit_mode
             /\ after.df = df /\ after.df_columns = df_columns
             /\ after.undo_stack = undo_stack /\ after.redo_stack = redo_stack
             /\ after.modified = modified

\* An untitled session with unsaved changes in edit mode: the prompt can be
\* cancelled, and Save can fail or be dismissed in the save dialog.
C11_Witness ==
  /\ has_df /\ edit_mode /\ modified /\ ~crashed
  /\ current_file = NoFile /\ df_columns # <<>>

\* C12: leaving edit mode with unsaved changes, answered No (discard), ends
\* in viewing mode with the dirty flag false, both command sequences empty
\* and, for a session with a backing file, the DataFrame as the file holds
\* it; an untitled session ends clean and in viewing mode as well.
C12_DiscardLeavesClean ==
  (edit_mode /\ modified /\ ~crashed) =>
    LET after == ToggleEditMode(St, "no", NoFile, TRUE) IN
      /\ ~after.crashed /\ ~after.edit_mode /\ ~after.modified
      /\ after.undo_stack = <<>> /\ after.redo_stack = <<>>
      /\ (current_file # NoFile /\ OnDisk.exists) =>
            (after.df = OnDisk.rows /\ after.df_columns = OnDisk.columns)

\* C13: after a successful open the DataFrame is the table of the file, both
\* command sequences are empty, the dirty flag is false, no filter is set and
\* no column has a sort state left over from the session before.
C13_OpenStartsFresh ==
  ~crashed =>
    \A file_name \in OpenNames \ {NoFile} :
      disk[file_name].exists =>
        LET after == LoadParquetFile(St, file_name, TRUE) IN
          /\ ~after.crashed
          /\ after.df = disk[file_name].rows
          /\ after.df_columns = disk[file_name].columns
          /\ after.undo_stack = <<>> /\ after.redo_stack = <<>>
          /\ ~after.modified
          /\ after.filters = EmptyDict
          /\ after.column_sort_states = EmptyDict

\* The session's table, history, dirty flag and backing path are as before.
SessionKept(after) ==
  /\ ~after.crashed
  /\ after.df = df /\ after.df_columns = df_columns
  /\ after.undo_stack = undo_stack /\ after.redo_stack = redo_stack
  /\ after.modified = modified
  /\ after.current_file = current_file

\* C14: open (from the dialog or from the recent list) and new-file on a
\* dirty session, when the prompt is answered Cancel or answered Save with a
\* save that fails or is dismissed, leave the DataFrame, both command
\* sequences, the dirty flag and the current path unchanged.
C14_DeclinedReplaceKeepsSession ==
  (has_df /\ modified /\ ~crashed) =>
    \A answer \in AllAnswers : Declined(answer) =>
      /\ \A target \in OpenTargets :
           SessionKept(OpenFile(St, answer.choice, answer.file_name, answer.io_ok,
                                target.name, target.read_ok))
      /\ \A dialog \in ColumnDialogs :
           SessionKept(CreateNewFile(St, answer.choice, answer.file_name, answer.io_ok,
                                     dialog.accepted, dialog.name, dialog.type,
                                     dialog.default))

\* C15: a load that fails, because the file cannot be read or because
\* showing its content raises, leaves the DataFrame, the column types, both
\* command sequences, the dirty flag, the filters and the current path as
\* they were.
C15_FailedLoadUntouched ==
  (has_df /\ ~crashed) =>
    \A file_name \in Files, read_ok \in BOOLEAN :
      LET after == LoadParquetFile(St, file_name, read_ok)
          failed == ~read_ok \/ ~disk[file_name].exists
                      \/ \E r \in 1..Len(disk[file_name].rows) :
                           \E c \in 1..Len(disk[file_name].columns) :
                              Unshowable(disk[file_name].rows[r][c])
      IN failed =>
           /\ ~after.crashed
           /\ after.df = df /\ after.df_columns = df_columns
           /\ after.column_types = column_types
           /\ after.undo_stack = undo_stack /\ after.redo_stack = redo_stack
           /\ after.modified = modified
           /\ after.filters = filters
           /\ after.current_file = current_file

\* The cells in which two DataFrames of one shape differ.
ChangedCells(before, after) ==
  {<<r, c>> \in (1..Len(before)) \X (1..Len(df_columns)) : after[r][c] # before[r][c]}

\* C16: a paste or a delete-selection that changes one or more cells pushes
\* exactly one command, holding one change for each changed cell; a single undo
\* then restores every one of those cells and a single redo applies them
\* all again.
C16_OneCommandPerBulkEdit ==
  [][((Paste \/ DeleteSelection) /\ df' # df /\ ~crashed') =>
       /\ Len(undo_stack') = Len(undo_stack) + 1
       /\ \A cell \in ChangedCells(df, df') :
            Cardinality({i \in 1..Len(LastOf(undo_stack')) :
                           /\ LastOf(undo_stack')[i].row = cell[1] - 1
                           /\ LastOf(undo_stack')[i].col = cell[2] - 1}) = 1
       /\ UndoEdit(St').df = df
       /\ RedoEdit(UndoEdit(St')).df = df']_vars

\* C17: a cut that empties one or more cells is one command: the undo
\* sequence grows by exactly one, and a single undo restores every cut cell.
C17_CutIsOneCommand ==
  [][(Cut /\ df' # df /\ ~crashed') =>
       /\ Len(undo_stack') = Len(undo_stack) + 1
       /\ UndoEdit(St').df = df]_vars

\* The rows of the table that no filter hides.
VisibleRows == {r \in 1..Len(table) : ~hidden[r]}

RECURSIVE SumVisible(_, _)
SumVisible(col, upto) ==
  IF upto = 0 THEN 0
  ELSE SumVisible(col, upto - 1)
       + (IF upto \in VisibleRows /\ IsNumericText(table[upto][col + 1])
             /\ ~IsInfText(table[upto][col + 1])
          THEN NumericOf(table[upto][col + 1]) ELSE 0)

\* The total of a column over its visible rows, blank when none is numeric.
VisibleTotalText(col) ==
  IF \E r \in VisibleRows : IsNumericText(table[r][col + 1])
  THEN PyFormatComma(SumVisible(col, Len(table))) \o <<".", "0", "0">>
  ELSE <<>>

\* C18: the total that update_column_totals shows for a column (past the
\* label column) is the sum of the numeric displayed values of the visible
\* rows only, and blank when no visible row holds a numeric value.
C18_TotalsOfVisibleRows ==
  (has_df /\ ~crashed /\ Len(table) > 0) =>
    LET after == UpdateColumnTotals(St) IN
      \A col \in 1..(ColumnCount(St) - 1) :
         after.totals[col + 1] = VisibleTotalText(col)

\* C19: update_column_totals produces, for every column of the table and
\* for column 0 as well, the total of that column's numeric values.
C19_TotalForEveryColumn ==
  (has_df /\ ~crashed /\ Len(table) > 0) =>
    LET after == UpdateColumnTotals(St) IN
      \A col \in 0..(ColumnCount(St) - 1) :
         after.totals[col + 1] = ColumnTotalText(St, col)

\* The totals strip as update_column_totals fills it for the table shown.
FreshTotals ==
  [c \in 1..ColumnCount(St) |->
     IF c = 1 THEN TotalLabel ELSE ColumnTotalText(St, c - 1)]

\* C20: the totals shown are never stale: after a load, a cell edit, a
\* paste, a cut, a delete-selection, an insert or delete of rows or columns
\* (deleting the last remaining row included), a filter change, an undo or
\* a redo they are the totals of the table as it is shown.
C20_TotalsNeverStale ==
  (has_df /\ ~crashed) => totals = FreshTotals

\* C21: the visible rows are exactly the rows whose displayed text contains,
\* in every filtered column, that column's pattern without regard to case;
\* with no filter set every row is visible.
C21_VisibleRowsMatchFilters ==
  (has_df /\ ~crashed) =>
    \A r \in 1..Len(table) : ~hidden[r] <=> RowShown(St, r)

\* C22: setting a filter, clearing one and clearing all of them leave the
\* DataFrame (columns, rows, values), both command sequences, the dirty flag
\* and the modified-cell set as they were, and applying the filters a second
\* time gives the same hidden rows.
C22_FiltersOnlyHideRows ==
  (has_df /\ ~crashed) =>
    /\ \A column \in FilterColumns, filter_text \in FilterTexts :
         column < ColumnCount(St) =>
           /\ Untouched(ShowFilterDialog(St, column, filter_text))
           /\ Untouched(ClearFilter(St, column))
           /\ ApplyFilters(ShowFilterDialog(St, column, filter_text)).hidden
                = ShowFilterDialog(St, column, filter_text).hidden
    /\ Untouched(ClearAllFilters(St))
    /\ ApplyFilters(ApplyFilters(St)).hidden = ApplyFilters(St).hidden

\* A dirty session with history in which setting the filter hides a row.
C22_Witness ==
  /\ has_df /\ ~crashed /\ modified /\ undo_stack # <<>> /\ redo_stack # <<>>
  /\ filters # EmptyDict
  /\ \E r \in 1..Len(hidden) : hidden[r]

\* C23: on a column that has no sort state, the first sort gives ascending,
\* the second descending, and the third leaves the column without sort state.
C23_SortCyclesThreeStates ==
  (has_df /\ ~crashed) =>
    \A column \in SortColumns :
      (column < ColumnCount(St) /\ column \notin DOMAIN column_sort_states) =>
        LET first == ToggleColumnSort(St, column)
            second == ToggleColumnSort(first, column)
            third == ToggleColumnSort(second, column)
        IN /\ column \in DOMAIN first.column_sort_states
           /\ first.column_sort_states[column]
           /\ column \in DOMAIN second.column_sort_states
           /\ ~second.column_sort_states[column]
           /\ column \notin DOMAIN third.column_sort_states

\* C24: sorting a column and then a different one leaves only the second
\* with sort state, ascending; a later sort of the first column starts it
\* again at ascending and leaves it the only column with sort state.
C24_SingleActiveSort ==
  (has_df /\ ~crashed) =>
    \A one \in 0..(ColumnCount(St) - 1), other \in 0..(ColumnCount(St) - 1) :
      one # other =>
        LET sorted_one == ToggleColumnSort(St, one)
            sorted_other == ToggleColumnSort(sorted_one, other)
            again == ToggleColumnSort(sorted_other, one)
        IN /\ DOMAIN sorted_other.column_sort_states = {other}
           /\ sorted_other.column_sort_states[other]
           /\ DOMAIN again.column_sort_states = {one}
           /\ again.column_sort_states[one]

\* View row view_row of s displays the record stored at df_row.
Shows(s, view_row, df_row) ==
  \A c \in 1..ColumnCount(s) :
     SameShown(s.table[view_row][c], DisplayStored(s.df[df_row][c]))

\* C25: a sort leaves the DataFrame's row order and the commands on both
\* stacks as they were, and a cell edit typed afterwards at a displayed row
\* changes the stored record that this row displays, not another record.
C25_SortKeepsEditsOnRecord ==
  (has_df /\ edit_mode /\ ~crashed) =>
    \A column \in 0..(ColumnCount(St) - 1) :
      LET sorted == ToggleColumnSort(St, column) IN
        /\ sorted.df = df
        /\ sorted.undo_stack = undo_stack /\ sorted.redo_stack = redo_stack
        /\ \A row \in 0..(RowCount(St) - 1), col \in 0..(ColumnCount(St) - 1),
              text \in InputTexts :
             LET after == SetText(sorted, row, col, text, MaxFuel) IN
               \A d \in 1..Len(df) :
                  (d <= Len(after.df) /\ after.df[d] # sorted.df[d]) =>
                     Shows(sorted, row + 1, d)

\* The old index (from 1) of the k-th row that a deletion of rows leaves.
Survivor(k, rows, n) ==
  CHOOSE i \in 1..n :
     (i - 1) \notin rows /\ Cardinality({j \in 1..i : (j - 1) \notin rows}) = k

Compacted(seq, rows) ==
  [k \in 1..(Len(seq) - Cardinality(rows)) |-> seq[Survivor(k, rows, Len(seq))]]

\* C26: a confirmed deletion of a set of rows removes exactly those rows from
\* the DataFrame and from the table; the rows that remain keep their order
\* and are indexed from 0 without gaps, so after deleting row i alone the
\* cell (i, c) holds what (i + 1, c) held.
C26_DeleteRowsCompacts ==
  (has_df /\ edit_mode /\ ~crashed /\ Len(df) = Len(table)) =>
    \A rows \in (SUBSET (0..(RowCount(St) - 1))) \ {{}} :
      LET after == DeleteRow(St, rows, TRUE) IN
        /\ ~after.crashed
        /\ after.df = Compacted(df, rows)
        /\ after.table = Compacted(table, rows)
        /\ \A i \in rows :
             (rows = {i} /\ i + 2 <= Len(df)) =>
                /\ after.df[i + 1] = df[i + 2]
                /\ after.table[i + 1] = table[i + 2]

\* A table of two rows in edit mode, where deleting row 0 moves row 1 up.
C26_Witness ==
  /\ has_df /\ edit_mode /\ ~crashed /\ Len(df) = 2 /\ Len(table) = 2
  /\ df[1] # df[2]

\* Texts entered as the new column's name and default value.
DuplicateOrEmpty(name_input) ==
  \/ Strip(name_input) = <<>>
  \/ \E c \in 1..Len(df_columns) : df_columns[c] = Strip(name_input)

Uncoercible(type_name, default_input) ==
  /\ Strip(default_input) # <<>>
  /\ ~ConvertValue(Strip(default_input), DtypeMap(type_name)).ok

\* C27: adding a column whose name is empty or already exists, or whose
\* default value cannot be coerced to the chosen type, is given up with the
\* column list, every row, the column types and the dirty flag as they
\* were; and the column names of the DataFrame are distinct in every state.
C27_RefusedColumnNoMutation ==
  (has_df /\ edit_mode /\ ~crashed) =>
    /\ \A position \in (-1)..ColumnCount(St),
          name_input \in ColumnNameInputs \cup {<<" ">>},
          type_name \in DialogTypes,
          default_input \in InputTexts \cup {InfText} :
         (DuplicateOrEmpty(name_input) \/ Uncoercible(type_name, default_input)) =>
            LET after == AddNewColumn(St, position, TRUE, name_input, type_name,
                                      default_input)
            IN /\ ~after.crashed
               /\ after.df_columns = df_columns /\ after.df = df
               /\ after.column_types = column_types
               /\ after.modified = modified
    /\ \A c \in 1..Len(df_columns), d \in 1..Len(df_columns) :
         df_columns[c] = df_columns[d] => c = d

\* A structural operation that was carried out: the session is dirty and
\* both command sequences are as before.
DirtyHistoryKept(after) ==
  after.crashed \/
    (/\ after.modified
     /\ after.undo_stack = undo_stack /\ after.redo_stack = redo_stack)

SameShape(after) ==
  after.crashed \/
    (/\ Len(after.df) = Len(df) /\ after.df_columns = df_columns
     /\ Len(after.table) = Len(table) /\ Len(after.header) = Len(header))

\* C28: inserting a row, deleting rows, adding a column and deleting columns
\* set the dirty flag and leave the undo and the redo sequence as they were;
\* undo and redo never add or remove a row or a column.
C28_StructureOutsideHistory ==
  (has_df /\ edit_mode /\ ~crashed) =>
    /\ \A row_index \in 0..RowCount(St) : DirtyHistoryKept(InsertRow(St, row_index))
    /\ \A rows \in (SUBSET (0..(RowCount(St) - 1))) \ {{}} :
         DirtyHistoryKept(DeleteRow(St, rows, TRUE))
    /\ \A columns \in (SUBSET (0..(ColumnCount(St) - 1))) \ {{}} :
         DirtyHistoryKept(DeleteColumn(St, columns, TRUE))
    /\ \A position \in (-1)..ColumnCount(St), type_name \in DialogTypes,
          default_input \in DefaultInputs :
         DirtyHistoryKept(AddNewColumn(St, position, TRUE, <<"q">>, type_name,
                                       default_input))
    /\ SameShape(UndoEdit(St))
    /\ SameShape(RedoEdit(St))

\* Every rectangle of cells of the table.
Rectangles ==
  {sel \in [top : 0..(Len(table) - 1), bottom : 0..(Len(table) - 1),
            left : 0..(Len(header) - 1), right : 0..(Len(header) - 1)] :
     sel.top <= sel.bottom /\ sel.left <= sel.right}

CellsIn(sel) == (sel.top..sel.bottom) \X (sel.left..sel.right)

NumericIn(sel) ==
  {cell \in CellsIn(sel) : IsNumericText(table[cell[1] + 1][cell[2] + 1])}

RECURSIVE SumOver(_)
SumOver(cells) ==
  IF cells = {} THEN 0
  ELSE LET cell == CHOOSE x \in cells : TRUE
       IN NumericOf(table[cell[1] + 1][cell[2] + 1]) + SumOver(cells \ {cell})

\* C29: for every selection the statistics show as count the number of
\* selected cells, non-numeric and empty ones included, as sum the sum of
\* the selected cells whose text is a number, and as average that sum
\* divided by the number of those cells (to the nearest hundredth); sum and
\* average are absent when no selected cell is numeric.
C29_SelectionStats ==
  (has_df /\ ~crashed) =>
    \A sel \in Rectangles :
      LET stats == CalculateSelectionStats(St, sel)
          n == Cardinality(NumericIn(sel))
      IN /\ stats.count = PyFormatComma(Cardinality(CellsIn(sel)))
         /\ stats.numeric <=> n > 0
         /\ n = 0 => (stats.sum = <<>> /\ stats.average = <<>>)
         /\ n > 0 =>
              /\ stats.sum = TwoDecimals(100 * SumOver(NumericIn(sel)))
              /\ \E hundredths \in {(100 * SumOver(NumericIn(sel))) \div n,
                                    (100 * SumOver(NumericIn(sel))) \div n + 1} :
                   /\ stats.average = TwoDecimals(hundredths)
                   /\ 2 * (hundredths * n - 100 * SumOver(NumericIn(sel))) <= n
                   /\ 2 * (100 * SumOver(NumericIn(sel)) - hundredths * n) <= n

\* A table in which a selection holds numeric cells next to other cells.
C29_Witness ==
  /\ has_df /\ ~crashed
  /\ \E sel \in Rectangles :
       /\ Cardinality(NumericIn(sel)) >= 2
       /\ Cardinality(CellsIn(sel)) > Cardinality(NumericIn(sel))

\* What pasting text into column col gives, by the column's declared type.
Coerced(text, col) == ConvertValue(text, DeclaredType(col))

HasChangeFor(command, cell) ==
  \E i \in 1..Len(command) : command[i].row = cell.row /\ command[i].col = cell.col

\* C30: in a paste of a text over the selected cells, a cell whose column
\* type cannot take the text is skipped (its stored value stays and the
\* command holds no change for it) while every other selected cell receives
\* the coerced value; when no cell can take the text no command is pushed
\* and the dirty flag stays as it was.
C30_PasteSkipsUncoercible ==
  (has_df /\ edit_mode /\ ~crashed /\ ~clipboard_data.set /\ Len(df) = Len(table)) =>
    \A sel \in Selections(St), text \in (InputTexts \ {<<>>}) \cup {InfText} :
      LET after == PasteCells(St, sel, <<<<text>>>>)
          cells == SelectedCells(sel)
          pushed == after.undo_stack # undo_stack
      IN /\ ~after.crashed
         /\ \A i \in 1..Len(cells) :
              IF Coerced(text, cells[i].col).ok
              THEN CellAt(after.df, cells[i].row, cells[i].col)
                     = Coerced(text, cells[i].col).v
              ELSE /\ CellAt(after.df, cells[i].row, cells[i].col)
                        = CellAt(df, cells[i].row, cells[i].col)
                   /\ pushed => ~HasChangeFor(LastOf(after.undo_stack), cells[i])
         /\ (\A i \in 1..Len(cells) : ~Coerced(text, cells[i].col).ok) =>
              (after.undo_stack = undo_stack /\ after.modified = modified)

\* C31: a transition from viewing to editing leaves both command sequences
\* and the modified-cell set empty.
C31_EnteringStartsFresh ==
  (~edit_mode /\ ~crashed) =>
    LET after == ToggleEditMode(St, "cancel", NoFile, TRUE) IN
      /\ ~after.crashed /\ after.edit_mode
      /\ after.undo_stack = <<>> /\ after.redo_stack = <<>>
      /\ after.modified_cells = {}

(***************************************************************************)
(* SpecTypes: edits and pastes in a file with a Boolean column.            *)
(***************************************************************************)
FlagFile ==
  [exists |-> TRUE,
   columns |-> <<<<"o", "k">>>>,
   dtypes |-> <<"bool">>,
   rows |-> <<<<BoolV(TRUE)>>, <<BoolV(FALSE)>>>>]

FlagTexts ==
  {<<>>, <<"T", "r", "u", "e">>, <<"Y", "e", "s">>, <<"1">>,
   <<"f", "a", "l", "s", "e">>, <<"1", "2", "x">>}

InitTyped ==
  Is(LoadParquetFile([Constructed(TRUE) EXCEPT !.disk["a.parquet"] = FlagFile],
                     "a.parquet", TRUE))

CellEditFlag ==
  /\ ~crashed /\ edit_mode /\ StackRoom
  /\ \E row \in 0..(RowCount(St) - 1), col \in 0..(ColumnCount(St) - 1),
        text \in FlagTexts :
       DoEdit(SetText(St, row, col, text, MaxFuel))

PasteFlag ==
  /\ ~crashed /\ StackRoom
  /\ \E sel \in Selections(St), text \in FlagTexts \ {<<>>} :
       DoEdit(PasteCells(St, sel, <<<<text>>>>))

NextTypes ==
  \/ CellEditFlag
  \/ PasteFlag
  \/ Undo
  \/ Redo

SpecTypes == InitTyped /\ [][NextTypes]_vars

\* The texts a Boolean coercion is tried on.
CoercedTexts == FlagTexts \cup {<<"y", "e", "s">>, <<"n", "o">>, <<"0">>, <<"t", "r", "u", "e">>}

\* What a text becomes in a Boolean column.
AsBoolean(text) ==
  IF text = <<>> THEN Null
  ELSE BoolV(text \in {<<"T", "r", "u", "e">>, <<"t", "r", "u", "e">>, <<"1">>,
                       <<"Y", "e", "s">>, <<"y", "e", "s">>})

\* C32: in a column declared bool, a typed text that differs from the shown
\* stored value, and a pasted text, are never rejected: the cell then holds
\* null for the empty text, true for "true", "1" or "yes" in any case, and
\* false for every other text.
C32_BooleanCoercionTotal ==
  (edit_mode /\ ~crashed) =>
    \A col \in 0..(ColumnCount(St) - 1) : DeclaredType(col) = "bool" =>
      \A text \in CoercedTexts :
        /\ LET conv == ConvertValue(text, "bool") IN
             conv.ok /\ ~conv.fatal /\ conv.v = AsBoolean(text)
        /\ \A row \in 0..(RowCount(St) - 1) :
             text # Strip(PyStr(Iloc(St, row, col))) =>
               LET after == SetText(St, row, col, text, MaxFuel) IN
                 ~after.crashed /\ Iloc(after, row, col) = AsBoolean(text)
        /\ \A row \in 0..(RowCount(St) - 2) : text # <<>> =>
             LET sel == [top |-> row, bottom |-> row, left |-> col, right |-> col]
                 after == PasteCells(St, sel, <<<<text>>>>)
             IN ~after.crashed /\ Iloc(after, row, col) = AsBoolean(text)

\* A cell of the Boolean column holds true and shows the coerced value's format.
C32_Witness ==
  /\ ~crashed /\ DeclaredType(0) = "bool"
  /\ \E row \in 1..Len(df) : df[row][1] = BoolV(TRUE) /\ table[row][1] = <<"1">>
  /\ \E row \in 1..Len(df) : df[row][1] = BoolV(FALSE) /\ table[row][1] = <<"0">>

\* The undo sequence of `after` is that of `before` with at most one more command.
AtMostOnePush(before, after) ==
  Len(after.undo_stack) <= Len(before.undo_stack) + 1

\* C33: no display rewrite made by a handler is taken for an edit: a cell
\* edit, a delete-selection, a cut and a paste each push at most one
\* command; an undo moves one command from the undo to the redo sequence and
\* a redo moves one back, neither pushing a command nor emptying the redo
\* sequence.
C33_RewritesAreNotEdits ==
  (edit_mode /\ ~crashed) =>
    /\ \A row \in 0..(RowCount(St) - 1), col \in 0..(ColumnCount(St) - 1),
          text \in InputTexts :
         AtMostOnePush(St, SetText(St, row, col, text, MaxFuel))
    /\ \A sel \in Selections(St) :
         /\ AtMostOnePush(St, DeleteSelectedCellContents(St, sel))
         /\ AtMostOnePush(St, CutCells(St, sel))
         /\ \A clip \in SystemClipboards : AtMostOnePush(St, PasteCells(St, sel, clip))
    /\ undo_stack # <<>> =>
         LET after == UndoEdit(St) IN
           /\ after.undo_stack = SubSeq(undo_stack, 1, Len(undo_stack) - 1)
           /\ after.redo_stack = Append(redo_stack, LastOf(undo_stack))
    /\ redo_stack # <<>> =>
         LET after == RedoEdit(St) IN
           /\ after.undo_stack = Append(undo_stack, LastOf(redo_stack))
           /\ after.redo_stack = SubSeq(redo_stack, 1, Len(redo_stack) - 1)

\* C34: every (row, col) held by a command of the undo or the redo sequence
\* is a cell of the table and of the DataFrame, and an undo or a redo does
\* not end in an out-of-range index.
C34_CommandsAddressCells ==
  (edit_mode /\ ~crashed) =>
    /\ \A k \in 1..Len(undo_stack) : \A i \in 1..Len(undo_stack[k]) :
         /\ InDf(St, undo_stack[k][i].row, undo_stack[k][i].col)
         /\ undo_stack[k][i].row < RowCount(St)
         /\ undo_stack[k][i].col < ColumnCount(St)
    /\ \A k \in 1..Len(redo_stack) : \A i \in 1..Len(redo_stack[k]) :
         /\ InDf(St, redo_stack[k][i].row, redo_stack[k][i].col)
         /\ redo_stack[k][i].row < RowCount(St)
         /\ redo_stack[k][i].col < ColumnCount(St)
    /\ ~UndoEdit(St).crashed
    /\ ~RedoEdit(St).crashed

\* C35: the table and the DataFrame have the same number of rows and the
\* same number of columns after a load, a new file, and any insertion or
\* deletion of rows or columns.
C35_ViewAndStoreSameDimensions ==
  (has_df /\ ~crashed) =>
    /\ RowCount(St) = DfRows(St)
    /\ ColumnCount(St) = DfCols(St)
    /\ \A r \in 1..Len(table) : Len(table[r]) = Len(header)
    /\ \A r \in 1..Len(df) : Len(df[r]) = Len(df_columns)

\* The filters of `after` are those of `before`, each on the column of the
\* same name, and every key is the ordinal of a column.
FiltersFollowColumns(before, after) ==
  after.crashed \/
    (/\ \A k \in DOMAIN after.filters : k < DfCols(after)
     /\ \A k \in DOMAIN before.filters :
          \A c \in 0..(DfCols(after) - 1) :
             after.df_columns[c + 1] = before.df_columns[k + 1] =>
               c \in DOMAIN after.filters /\ after.filters[c] = before.filters[k]
     /\ \A c \in DOMAIN after.filters :
          \E k \in DOMAIN before.filters :
             /\ c < DfCols(after) /\ k < DfCols(before)
             /\ after.df_columns[c + 1] = before.df_columns[k + 1])

\* C36: with a filter set on a column, adding a column at any position and
\* deleting any columns leave every filter key the ordinal of an existing
\* column, and leave each remaining filter on the column of the same name.
C36_FiltersFollowColumns ==
  (edit_mode /\ has_df /\ ~crashed) =>
    \A column \in 0..(ColumnCount(St) - 1) :
      LET filtered == ShowFilterDialog(St, column, <<"7">>) IN
        /\ \A position \in (-1)..ColumnCount(St) :
             FiltersFollowColumns(filtered,
               AddNewColumn(filtered, position, TRUE, <<"q">>, "Text", <<>>))
        /\ \A columns \in (SUBSET (0..(ColumnCount(St) - 1))) \ {{}} :
             FiltersFollowColumns(filtered, DeleteColumn(filtered, columns, TRUE))

\* The DataFrame, both command sequences and the dirty flag of `after` are
\* those of the current state.
StoreKept(after) ==
  /\ ~after.crashed
  /\ after.has_df = has_df /\ after.df = df /\ after.df_columns = df_columns
  /\ after.column_types = column_types
  /\ after.undo_stack = undo_stack /\ after.redo_stack = redo_stack
  /\ after.modified = modified /\ after.modified_cells = modified_cells
  /\ ~after.edit_mode

UndoneCells ==
  UNION {{<<undo_stack[k][i].row, undo_stack[k][i].col>> : i \in 1..Len(undo_stack[k])} :
           k \in 1..Len(undo_stack)}

\* C38: whenever the undo sequence is not empty the session is dirty, and
\* the modified-cell set is the set of the (row, col) of the commands on the
\* undo sequence.
C38_HistoryMatchesDirtyState ==
  ~crashed =>
    /\ undo_stack # <<>> => modified
    /\ modified_cells = UndoneCells

\* Two different commands on the undo sequence of a dirty session.
C38_Witness ==
  /\ ~crashed /\ Len(undo_stack) = 2 /\ modified
  /\ modified_cells = UndoneCells
  /\ undo_stack[1] # undo_stack[2]

\* C39: a paste of a text that every column can take writes the coerced
\* value to every selected cell of the table, those of the last row
\* included.
C39_PasteReachesLastRow ==
  (has_df /\ edit_mode /\ ~crashed /\ ~clipboard_data.set) =>
    \A sel \in Selections(St) :
      LET text == <<"2", ",", "0", "0", "0">>
          after == PasteCells(St, sel, <<<<text>>>>)
          cells == SelectedCells(sel)
      IN \A i \in 1..Len(cells) :
           /\ ~after.crashed
           /\ CellAt(after.df, cells[i].row, cells[i].col) = Coerced(text, cells[i].col).v
           /\ after.table[cells[i].row + 1][cells[i].col + 1]
                = DisplayConverted(Coerced(text, cells[i].col).v)

\* Both command sequences, the dirty flag and the DataFrame of `after` are
\* those of the current state.
NotRecorded(after) ==
  /\ ~after.crashed
  /\ after.undo_stack = undo_stack /\ after.redo_stack = redo_stack
  /\ after.modified = modified /\ after.df = df

SameValue(a, b) == (IsNa(a) /\ IsNa(b)) \/ PyEq(a, b)

\* C40: an edit of a visible cell whose text coerces to the value the cell
\* already stores, and a delete-selection over cells that are all null, push no
\* command, leave the redo sequence as it was and do not change the dirty
\* flag.
C40_NoChangeNoCommand ==
  (has_df /\ edit_mode /\ ~crashed) =>
    /\ \A row \in 0..(DfRows(St) - 1), col \in 0..(DfCols(St) - 1),
          text \in InputTexts \cup {<<"7">>, <<"7", ",">>, <<" ">>} :
         (/\ ~hidden[row + 1]
          /\ Coerced(Strip(text), col).ok
          /\ SameValue(Coerced(Strip(text), col).v, Iloc(St, row, col))) =>
           NotRecorded(SetText(St, row, col, text, MaxFuel))
    /\ \A sel \in Selections(St) :
         (\A r \in sel.top..sel.bottom, c \in sel.left..sel.right :
            InDf(St, r, c) /\ IsNa(Iloc(St, r, c))) =>
           NotRecorded(DeleteSelectedCellContents(St, sel))

====
